---- MODULE Spec2Model ----
(***************************************************************************)
(* The log-courier publisher (src/unnamed/part_000): the Publish event     *)
(* loop, the pending-payload list and map, processAck, checkResend and     *)
(* sendNewPayload, as a state machine.  The transport, the input channel,  *)
(* the registrar channel, the timer and the shutdown signal are the        *)
(* environment.  The shutdown coordinator (src/unnamed/part_001,           *)
(* LogCourierMasterControl and LogCourierControl) is a second state        *)
(* machine on variables of its own; the two share the signal channel.      *)
(***************************************************************************)
EXTENDS Integers, Sequences, FiniteSets, TLC

\* ------------------------------------------------------------------ bounds

\* Batches the spooler offers on the input channel in one run.
MaxBatches == 2
\* Batches it offers in the runs that follow back-pressure over reconnects,
\* where every batch is one encodable event.
MaxLongBatches == 4
\* Largest number of events in one batch (0 is an empty batch).
MaxBatchLen == 2

\* The largest value out_of_sync is followed to (the code puts no limit on it).
MaxOutOfSync == 2

\* max_pending_payloads of the source is 100; the model runs the same code
\* with the limit scaled down so that the limit is reached within MaxBatches.
max_pending_payloads == 2

\* The controls registered with the shutdown coordinator in one run, and the
\* configs SendConfig delivers to one control.
MaxControls == 2
MaxConfigs == 2

\* The JDAT frames the lumberjack server receives in one run, and the times
\* the queueing of one frame's events may time out.
MaxFrames == 2
MaxAckTimeouts == 2

\* The processor pool, scaled: the routines Run starts (4 in the code), the
\* buffers of its input, fanout and collector channels (16, 4 and 4), the
\* batches sent to it and the configs sent on configChan in one run.
NumRoutines == 2
InputCap == 1
FanoutCap == 1
CollectorCap == 1
MaxPoolBatches == 2
MaxPoolConfigs == 1

\* Nonces: generateNonce draws 16 random bytes; the model draws from a set
\* with one value per batch, which is enough for every pattern of equal and
\* distinct nonces among the payloads of one run.
Nonces == 1..MaxLongBatches
\* Sequence numbers an ACKN may carry.
Sequences == 0..MaxBatchLen

\* A nil pointer (*PendingPayload) and a nil frame ([]byte).
NilPayload == 0
NilFrame == <<>>

\* --------------------------------------------------------------- variables

VARIABLES
  pc,               \* position of Publish: "connect", "select", "exited", "panic"
  connected,        \* the transport is connected
  can_send,         \* p.can_send is not nil
  input_toggle,     \* input_toggle is not nil
  retry_payload,    \* id of the payload, or NilPayload
  shutdown,         \* the local flag of Publish
  pending_ping,     \* p.pending_ping
  pending_payloads, \* the map nonce -> payload id (NilPayload: no entry)
  first_payload,    \* id or NilPayload
  last_payload,     \* id or NilPayload
  num_payloads,
  out_of_sync,
  payloads,         \* the heap: every PendingPayload allocated, by id
  timer,            \* the timer is armed and may fire
  signalled,        \* the shutdown signal channel is closed
  registrar,        \* the EventsEvent values sent on registrar_chan, in order
  taken,            \* the batches received from the input channel, in order
  acked,            \* the events some received ACKN of their payload has covered
  blocked,          \* can_send was set nil at the limit and no head unlinked since
  last,             \* what the last step of Publish met: "stale", "protocol",
                    \* "timeout", "signal", or "other"
  pinged,           \* a PING was written on this connection, no message read since
  written,          \* the payloads whose JDAT was written on this connection,
                    \* in the order of their first frame
  wire,             \* what the last step handed to transport.Write("JDAT", ...)
  controls,         \* the LogCourierControl values handed out, by slot
  group,            \* the counter of lcs.group (a sync.WaitGroup)
  waiter,           \* LogCourierMasterControl.Wait: "idle", "blocked", "returned"
  sending,          \* the SendConfig call in progress
  server,           \* the lumberjack server in process_jdat
  input,            \* Pool.input: batches buffered, and whether it is closed
  fanout,           \* Pool.fanout: bundles buffered, and whether it is closed
  collector,        \* Pool.collector: the bundles and nils buffered
  output,           \* Pool.output: batches delivered, and whether it is closed
  shutdownChan,     \* Pool.shutdownChan is closed
  configChan,       \* Pool.configChan: the config waiting on it (0: none)
                    \* and the configs sent so far
  run,              \* Pool.Run: its position and its local variables
  routines          \* every processorRoutine: its position

vars == <<pc, connected, can_send, input_toggle, retry_payload, shutdown,
          pending_ping, pending_payloads, first_payload, last_payload,
          num_payloads, out_of_sync, payloads, timer, signalled, registrar,
          taken, acked, blocked, last, pinged, written, wire,
          controls, group, waiter, sending, server,
          input, fanout, collector, output, shutdownChan, configChan,
          run, routines>>

\* The state of the shutdown coordinator (LogCourierMasterControl) beside
\* its signal channel, and the state of the publisher.
ctlVars == <<controls, group, waiter, sending>>
\* The state of the lumberjack server.
srvVars == <<server>>
\* The state of the processor pool.
poolVars == <<input, fanout, collector, output, shutdownChan, configChan,
              run, routines>>
pubVars == <<pc, connected, can_send, input_toggle, retry_payload, shutdown,
             pending_ping, pending_payloads, first_payload, last_payload,
             num_payloads, out_of_sync, payloads, timer, registrar, taken,
             acked, blocked, last, pinged, written, wire>>

\* The registry and list of the publisher.
regVars == <<pending_payloads, first_payload, last_payload, num_payloads,
             out_of_sync, payloads>>

\* ----------------------------------------------------------------- helpers

\* s[from+1 .. Len(s)]: the Go slice s[from:].
SliceFrom(s, from) == SubSeq(s, from + 1, Len(s))
\* s[1 .. to]: the Go slice s[:to].
SliceTo(s, to) == SubSeq(s, 1, to)

RECURSIVE Flatten(_)
Flatten(ss) == IF ss = <<>> THEN <<>> ELSE Head(ss) \o Flatten(Tail(ss))

IsPrefix(s, t) == Len(s) <= Len(t) /\ SubSeq(t, 1, Len(s)) = s

\* The payload ids linked from id p by next.
RECURSIVE ListFrom(_, _)
ListFrom(heap, p) ==
  IF p = NilPayload THEN <<>> ELSE <<p>> \o ListFrom(heap, heap[p].next)

\* The pending list: the payloads reachable from first_payload.
PendingList == ListFrom(payloads, first_payload)

\* json.Marshal of one event succeeds.
Encodable(event) == event.enc

\* bufferJdatDataEvent: a failed json.Marshal is followed by
\* binary.Write(output, binary.BigEndian, 2), whose data is a Go int, which
\* binary.Write refuses ("invalid type int"): the error is returned.
bufferJdatDataEvent(event) == Encodable(event)

\* PendingPayload.Generate: the frame of events[ack_events:], or an error
\* that leaves the payload as it was.
GenerateOk(pp) ==
  \A k \in 1..Len(SliceFrom(pp.events, pp.ack_events)) :
    bufferJdatDataEvent(SliceFrom(pp.events, pp.ack_events)[k])

\* Generate with the frame built from all the events of the payload, the
\* acknowledged ones included.
GenerateWholeBatch(pp) ==
  IF GenerateOk(pp)
  THEN [pp EXCEPT !.payload = <<pp.nonce, pp.events>>, !.payload_start = 0]
  ELSE pp

Generate(pp) ==
  IF GenerateOk(pp)
  THEN [pp EXCEPT !.payload = <<pp.nonce, SliceFrom(pp.events, pp.ack_events)>>,
                  !.payload_start = pp.ack_events]
  ELSE pp

\* NewPendingPayload before Generate.
NewPendingPayload(events, nonce) ==
  [next |-> NilPayload, nonce |-> nonce, events |-> events,
   num_events |-> Len(events), ack_events |-> 0, payload_start |-> 0,
   payload |-> NilFrame, timeout |-> FALSE]

\* A PendingPayload no pointer of the publisher reaches any more: the Go
\* runtime frees it.  first_payload and retry_payload (and the next links
\* from them) are the pointers that are ever followed; last_payload is
\* followed only while the list is not empty, when it is in the list.
Freed ==
  [next |-> NilPayload, nonce |-> 0, events |-> <<>>, num_events |-> 0,
   ack_events |-> 0, payload_start |-> 0, payload |-> NilFrame,
   timeout |-> FALSE]

Reachable(heap, first, retry) ==
  {ListFrom(heap, first)[k] : k \in 1..Len(ListFrom(heap, first))}
    \cup {ListFrom(heap, retry)[k] : k \in 1..Len(ListFrom(heap, retry))}

Collect(heap, first, retry) ==
  [i \in 1..Len(heap) |->
     IF i \in Reachable(heap, first, retry) THEN heap[i] ELSE Freed]

\* ids appended to the payloads written on this connection, each payload
\* once.
RECURSIVE AddWritten(_, _)
AddWritten(w, ids) ==
  IF ids = <<>> THEN w
  ELSE AddWritten(IF \E k \in 1..Len(w) : w[k] = Head(ids) THEN w
                  ELSE Append(w, Head(ids)),
                  Tail(ids))

\* A payload as it is when its frame is handed to transport.Write; gen:
\* Generate was called for this Write because the frame had been freed.
OnWire(pp, gen) ==
  [nonce |-> pp.nonce, events |-> pp.events, ack_events |-> pp.ack_events,
   payload_start |-> pp.payload_start, payload |-> pp.payload, gen |-> gen]

\* What a step of the inner loop leaves on record: what it met, whether a
\* PING is outstanding after it, the payloads whose JDAT it wrote and what
\* it handed to Write.  A step that leaves the inner loop ends the
\* connection.
NoteWrite(kind, ping, ids, frames) ==
  /\ last' = kind
  /\ pinged' = (pc' = "select" /\ ping)
  /\ written' = (IF pc' = "select" THEN AddWritten(written, ids) ELSE <<>>)
  /\ wire' = frames
  /\ UNCHANGED <<ctlVars, srvVars, poolVars>>

\* The record of a step that handed no JDAT to Write.
Note(kind, ping, ids) == NoteWrite(kind, ping, ids, <<>>)

\* ------------------------------------------------------------- processAck

\* The keys of the map pending_payloads.
MapKeys == {n \in Nonces : pending_payloads[n] # NilPayload}

\* ApplySequence with the full-ACKN test off by one: an ACKN one short of the
\* frame counts as a full one.
ApplySequenceOffByOne(pp, sequence) ==
  IF sequence >= pp.num_events - pp.payload_start - 1
  THEN [pp EXCEPT !.ack_events = Len(pp.events), !.payload = NilFrame]
  ELSE pp

\* processAck lines 476-492: the payload after the ACKN's sequence is applied.
ApplySequence(pp, sequence) ==
  IF sequence >= pp.num_events - pp.payload_start
  THEN [pp EXCEPT !.ack_events = Len(pp.events), !.payload = NilFrame]
  ELSE IF sequence > pp.num_events - pp.ack_events
       THEN [pp EXCEPT !.ack_events = sequence + pp.payload_start,
                       !.payload = NilFrame]
       ELSE pp

\* IsFullAck with the delete from the map forgotten.
IsFullAckNoDelete(pp, sequence) == FALSE

\* processAck line 480: the ACKN is a full one, and the map entry is deleted.
IsFullAck(pp, sequence) == sequence >= pp.num_events - pp.payload_start

\* processAck lines 497-523: the in-order drain from the head.  st holds
\* the heap, the payload the loop is at, the registry fields it assigns,
\* the local out_of_sync, p.can_send and what was sent to the registrar.
RECURSIVE Drain(_)
Drain(st) ==
  LET pp == st.heap[st.cur] IN
  IF pp.ack_events = 0 THEN st
  ELSE IF pp.ack_events # Len(pp.events)
  THEN [st EXCEPT
          !.reg = Append(st.reg, SliceTo(pp.events, pp.ack_events)),
          !.heap = [st.heap EXCEPT ![st.cur] =
                      [pp EXCEPT !.events = SliceFrom(pp.events, pp.ack_events),
                                 !.num_events = Len(pp.events) - pp.ack_events,
                                 !.ack_events = 0,
                                 !.payload_start = 0]]]
  ELSE LET st1 == [st EXCEPT !.reg = Append(st.reg, pp.events),
                             !.cur = pp.next,
                             !.first = pp.next,
                             !.num = st.num - 1,
                             !.local = st.local - 1,
                             !.oos = st.local - 1,
                             !.can = TRUE,
                             !.unlinked = TRUE]
       IN IF st1.cur = NilPayload THEN st1 ELSE Drain(st1)

\* processAck with a nonce that is no key of the map counted as an
\* acknowledgement out of order.
processAckCountsMiss(nonce, sequence) ==
  [heap |-> payloads, cur |-> NilPayload, first |-> first_payload,
   num |-> num_payloads, local |-> out_of_sync + 1,
   oos |-> IF pending_payloads[nonce] = NilPayload
           THEN out_of_sync + 1 ELSE out_of_sync,
   can |-> can_send, reg |-> registrar, map |-> pending_payloads,
   unlinked |-> FALSE, panic |-> FALSE]

\* processAck lines 466-535 for a 20-byte ACKN: the state after it, with
\* panic set when line 530 reads first_payload.timeout of a nil head.
processAck(nonce, sequence) ==
  LET id == pending_payloads[nonce]
      st0 == [heap |-> payloads, cur |-> id, first |-> first_payload,
              num |-> num_payloads, local |-> out_of_sync + 1,
              oos |-> out_of_sync, can |-> can_send, reg |-> registrar,
              map |-> pending_payloads, unlinked |-> FALSE, panic |-> FALSE]
  IN
  IF id = NilPayload THEN st0
  ELSE
    LET pp == payloads[id]
        st1 == [st0 EXCEPT
                  !.heap = [payloads EXCEPT ![id] = ApplySequence(pp, sequence)],
                  !.map = IF IsFullAck(pp, sequence)
                          THEN [pending_payloads EXCEPT ![nonce] = NilPayload]
                          ELSE pending_payloads]
        st2 == IF id = first_payload THEN Drain(st1)
               ELSE IF pp.ack_events = 0
                    THEN [st1 EXCEPT !.oos = out_of_sync + 1]
                    ELSE st1
    IN IF st2.oos # 0
       THEN IF st2.first = NilPayload
            THEN [st2 EXCEPT !.panic = TRUE]
            ELSE [st2 EXCEPT !.heap[st2.first].timeout = TRUE]
       ELSE st2

\* The events an ACKN with this sequence covers, counted from payload_start.
Covered(pp, sequence) ==
  {pp.events[k] : k \in {j \in 1..Len(pp.events) : j <= pp.payload_start + sequence}}

\* ------------------------------------------------------------ checkResend

\* checkResend lines 382-406.  expired: first_payload.timeout is before now;
\* wok: the Write succeeds.  kind is "panic" (first_payload or its timeout is
\* nil), "no" (false, nil), "err" (false, err) or "resent" (true, nil).
checkResend(expired, wok) ==
  IF first_payload = NilPayload \/ ~payloads[first_payload].timeout
  THEN [kind |-> "panic", heap |-> payloads, frame |-> NilFrame, wire |-> <<>>]
  ELSE IF ~expired
  THEN [kind |-> "no", heap |-> payloads, frame |-> NilFrame, wire |-> <<>>]
  ELSE LET pp == payloads[first_payload] IN
       IF pp.payload = NilFrame /\ ~GenerateOk(pp)
       THEN [kind |-> "err", heap |-> payloads, frame |-> NilFrame,
             wire |-> <<>>]
       ELSE LET pp1 == IF pp.payload = NilFrame THEN Generate(pp) ELSE pp
                heap1 == [payloads EXCEPT ![first_payload] = pp1]
                w == <<OnWire(pp1, pp.payload = NilFrame)>>
            IN IF wok /\ connected
               THEN [kind |-> "resent", heap |-> heap1, frame |-> pp1.payload,
                     wire |-> w]
               ELSE [kind |-> "err", heap |-> heap1, frame |-> NilFrame,
                     wire |-> w]

\* Publish lines 225-230: the next payload that still has unacknowledged events.
RECURSIVE NextRetry(_, _)
NextRetry(heap, p) ==
  IF p = NilPayload \/ heap[p].ack_events # Len(heap[p].events)
  THEN p
  ELSE NextRetry(heap, heap[p].next)

\* generateNonce and the collision loop of sendNewPayload lines 419-426: any
\* nonce that is no key of the map.  Nonces never drawn before are
\* interchangeable, so the least of them stands for all.
UsedNonces == {payloads[i].nonce : i \in 1..Len(payloads)} \ {0}
generateNonce ==
  {n \in Nonces \ MapKeys :
     n \in UsedNonces \/ \A m \in Nonces \ UsedNonces : n <= m}

\* --------------------------------------------------- shutdown coordinator

\* The slots of the controls handed out, and a slot not handed out yet.
Slots == 1..MaxControls
NoControl ==
  [reg |-> "none", signal |-> "none", after |-> FALSE, done |-> FALSE,
   got |-> 0]

\* No SendConfig call is in progress.
NotSending ==
  [active |-> FALSE, todo |-> {}, cur |-> 0, before |-> [c \in Slots |-> 0]]

\* ------------------------------------------------------ lumberjack server

\* The server between two messages: frames counts the JDAT frames received,
\* queued the events of each handed to the event queue, and acks is every
\* ACKN sent, with what was queued of its frame when it was sent.
ServerIdle ==
  [pc |-> "run", frames |-> 0, sequence |-> 0, timeouts |-> 0,
   queued |-> <<>>, acks |-> <<>>]

\* --------------------------------------------------------- processor pool

Routines == 1..NumRoutines

\* Pool.Run at the head of an iteration of its outer loop, lines 81-88, with
\* the pipelines of config cfg installed (0: the config Init was given).
\* held counts the bundles the sequencer has been given and not yet released.
RunStart(cfg) ==
  [pc |-> "select", shutdown |-> FALSE, newConfig |-> 0, cancelled |-> FALSE,
   routineCount |-> NumRoutines, result |-> 0, held |-> 0, pipelines |-> cfg]

\* ------------------------------------------------------------------- Init

\* NewPublisher, Publisher.Init and the head of Publish.
Init ==
  /\ pc = "connect"
  /\ connected = FALSE
  /\ can_send = FALSE
  /\ input_toggle = FALSE
  /\ retry_payload = NilPayload
  /\ shutdown = FALSE
  /\ pending_ping = FALSE
  /\ pending_payloads = [n \in Nonces |-> NilPayload]
  /\ first_payload = NilPayload
  /\ last_payload = NilPayload
  /\ num_payloads = 0
  /\ out_of_sync = 0
  /\ payloads = <<>>
  /\ timer = TRUE
  /\ signalled = FALSE
  /\ registrar = <<>>
  /\ taken = <<>>
  /\ acked = {}
  /\ blocked = FALSE
  /\ last = "other"
  /\ pinged = FALSE
  /\ written = <<>>
  /\ wire = <<>>
  /\ controls = [c \in Slots |-> NoControl]
  /\ group = 0
  /\ waiter = "idle"
  /\ sending = NotSending
  /\ server = ServerIdle
  /\ input = [len |-> 0, closed |-> FALSE, sent |-> 0]
  /\ fanout = [len |-> 0, closed |-> FALSE]
  /\ collector = <<>>
  /\ output = [sent |-> 0, closed |-> FALSE]
  /\ shutdownChan = FALSE
  /\ configChan = [cfg |-> 0, sent |-> 0]
  /\ run = RunStart(0)
  /\ routines = [r \in Routines |-> "select"]

\* ---------------------------------------------------------------- actions

\* BreakSelectLoop with retry_payload = p.first_payload forgotten.
BreakSelectLoopNoRetry(heap, fp) ==
  /\ pc' = "connect"
  /\ connected' = FALSE
  /\ retry_payload' = NilPayload
  /\ payloads' = Collect(heap, fp, NilPayload)

\* Publish lines 365-371: break SelectLoop with an error.  heap and fp are
\* the payloads and the head of the list after the step that failed.
BreakSelectLoop(heap, fp) ==
  /\ pc' = "connect"
  /\ connected' = FALSE
  /\ retry_payload' = fp
  /\ payloads' = Collect(heap, fp, fp)

\* BreakPublishLoop leaving the transport connected.
BreakPublishLoopNoDisconnect ==
  /\ pc' = "exited"
  /\ connected' = connected

\* Publish lines 374-380: break PublishLoop.
BreakPublishLoop ==
  /\ pc' = "exited"
  /\ connected' = FALSE

\* A nil pointer is dereferenced: the goroutine panics.
Panic ==
  /\ pc' = "panic"
  /\ connected' = connected

\* Publish lines 184 and 199-200: Connect succeeds.
ConnectOk ==
  /\ pc = "connect"
  /\ pc' = "select"
  /\ connected' = TRUE
  /\ can_send' = TRUE
  /\ input_toggle' = FALSE
  /\ UNCHANGED <<retry_payload, shutdown, pending_ping, regVars, timer,
                 signalled, registrar, taken, acked, blocked>>
  /\ last' = "other"
  /\ pinged' = FALSE
  /\ written' = <<>>
  /\ wire' = <<>>
  /\ UNCHANGED <<ctlVars, srvVars, poolVars>>

\* Publish lines 184-189: Connect fails and the Reconnect wait ends first.
ConnectFailRetry ==
  /\ pc = "connect"
  /\ pc' = "connect"
  /\ connected' = FALSE
  /\ UNCHANGED <<can_send, input_toggle, retry_payload, shutdown, pending_ping,
                 regVars, timer, signalled, registrar, taken, acked, blocked>>
  /\ Note("other", FALSE, <<>>)

\* Publish lines 184-200: Connect fails and the shutdown signal is seen.
\* With payloads pending the flag is set and control falls out of the
\* select into lines 199-200 and the inner loop, the transport unconnected.
ConnectFailShutdown ==
  /\ pc = "connect"
  /\ signalled
  /\ IF num_payloads = 0
     THEN /\ BreakPublishLoop
          /\ UNCHANGED <<can_send, input_toggle, shutdown>>
     ELSE /\ pc' = "select"
          /\ shutdown' = TRUE
          /\ can_send' = TRUE
          /\ input_toggle' = FALSE
          /\ connected' = FALSE
  /\ UNCHANGED <<retry_payload, pending_ping, regVars, timer, signalled,
                 registrar, taken, acked, blocked>>
  /\ Note("other", FALSE, <<>>)

\* Publish lines 210-217: the payload retry_payload points to, its frame
\* generated again if it was freed and its timeout reset.
Retried(rp) ==
  [(IF rp.payload = NilFrame THEN Generate(rp) ELSE rp) EXCEPT !.timeout = FALSE]

\* Publish line 220: what the retry hands to Write, nothing when Generate
\* failed before.
RetryWire ==
  LET rp == payloads[retry_payload] IN
  IF rp.payload = NilFrame /\ ~GenerateOk(rp) THEN <<>>
  ELSE <<OnWire(Retried(rp), rp.payload = NilFrame)>>

\* Publish lines 206-238: a credit while retry_payload is set.
\* wok: the Write succeeds.
RetrySend(wok) ==
  LET rp == payloads[retry_payload]
      gen == rp.payload = NilFrame
  IN
  IF gen /\ ~GenerateOk(rp)
  THEN /\ BreakSelectLoop(payloads, first_payload)
       /\ UNCHANGED timer
  ELSE LET rp1 == Retried(rp)
           heap1 == [payloads EXCEPT ![retry_payload] = rp1]
           nxt == NextRetry(heap1, rp1.next)
       IN IF ~wok
          THEN /\ BreakSelectLoop(heap1, first_payload)
               /\ UNCHANGED timer
          ELSE /\ retry_payload' = nxt
               /\ payloads' = Collect(heap1, first_payload, nxt)
               /\ IF first_payload = NilPayload
                  THEN Panic /\ UNCHANGED timer
                  ELSE timer' = TRUE /\ UNCHANGED <<pc, connected>>

\* Publish lines 239-248 and 318-327: checkResend is called; r is its result.
Resend(r) ==
  IF r.kind = "panic"
  THEN Panic /\ UNCHANGED <<retry_payload, payloads>>
  ELSE IF r.kind = "err"
  THEN BreakSelectLoop(r.heap, first_payload)
  ELSE /\ payloads' = r.heap
       /\ UNCHANGED <<pc, connected, retry_payload>>

\* Publish lines 206-256: a send credit is received.  writes: the outcomes
\* the transport's Write may have.
CanSendWith(writes) ==
  /\ pc = "select"
  /\ can_send
  /\ connected
  /\ \E wok \in writes, expired \in BOOLEAN :
       IF retry_payload # NilPayload
       THEN /\ RetrySend(wok)
            /\ UNCHANGED input_toggle
            /\ NoteWrite("other", pinged, <<retry_payload>>, RetryWire)
       ELSE IF out_of_sync # 0 /\ checkResend(expired, wok).kind # "no"
       THEN /\ Resend(checkResend(expired, wok))
            /\ timer' = (IF checkResend(expired, wok).kind = "resent"
                         THEN TRUE ELSE timer)
            /\ UNCHANGED input_toggle
            /\ NoteWrite("other", pinged,
                         IF checkResend(expired, wok).kind = "resent"
                         THEN <<first_payload>> ELSE <<>>,
                         checkResend(expired, wok).wire)
       ELSE /\ input_toggle' = (IF shutdown THEN input_toggle ELSE TRUE)
            /\ UNCHANGED <<pc, connected, retry_payload, payloads, timer>>
            /\ Note("other", pinged, <<>>)
  /\ UNCHANGED <<can_send, shutdown, pending_ping, pending_payloads,
                 first_payload, last_payload, num_payloads, out_of_sync,
                 signalled, registrar, taken, acked, blocked>>

CanSend == CanSendWith(BOOLEAN)

\* The events of the k-th batch: n events; with bad, json.Marshal cannot
\* encode the last of them.
Batch(k, n, bad) == [i \in 1..n |-> [b |-> k, i |-> i, enc |-> ~(bad /\ i = n)]]

\* The batches the input channel may deliver: any number of events up to
\* MaxBatchLen, all encodable, or one event that is not.
BatchShapes ==
  {<<n, FALSE>> : n \in 0..MaxBatchLen} \cup {<<1, TRUE>>}

\* sendNewPayload lines 417-444 and Publish lines 257-276: a batch is
\* received from the input channel.  limit: the batches the run offers;
\* shapes: the batches the channel may deliver; writes: the outcomes the
\* transport's Write may have.
TakeBatchFrom(limit, shapes, writes) ==
  /\ pc = "select"
  /\ input_toggle
  /\ Len(taken) < limit
  /\ \E shape \in shapes, nonce \in generateNonce, wok \in writes :
       LET events == Batch(Len(taken) + 1, shape[1], shape[2])
           pp0 == NewPendingPayload(events, nonce)
       IN
       /\ taken' = Append(taken, events)
       /\ IF ~GenerateOk(pp0)
          THEN /\ BreakSelectLoop(payloads, first_payload)
               /\ UNCHANGED <<can_send, input_toggle, pending_payloads,
                              first_payload, last_payload, num_payloads,
                              timer, blocked>>
          ELSE LET pp == Generate(pp0)
                   id == Len(payloads) + 1
                   fp == IF first_payload = NilPayload THEN id ELSE first_payload
                   heap1 == Append(IF first_payload = NilPayload THEN payloads
                                   ELSE [payloads EXCEPT ![last_payload].next = id],
                                   pp)
               IN
               /\ pending_payloads' = [pending_payloads EXCEPT ![nonce] = id]
               /\ first_payload' = fp
               /\ last_payload' = id
               /\ num_payloads' = num_payloads + 1
               /\ IF ~wok
                  THEN /\ BreakSelectLoop(heap1, fp)
                       /\ UNCHANGED <<can_send, input_toggle, timer, blocked>>
                  ELSE /\ payloads' = heap1
                       /\ input_toggle' = FALSE
                       /\ can_send' = (IF num_payloads + 1 >= max_pending_payloads
                                       THEN FALSE ELSE can_send)
                       /\ blocked' = (IF num_payloads + 1 >= max_pending_payloads
                                      THEN TRUE ELSE blocked)
                       /\ timer' = TRUE
                       /\ UNCHANGED <<pc, connected, retry_payload>>
       /\ NoteWrite("other", pinged,
                    IF GenerateOk(pp0) THEN <<Len(payloads) + 1>> ELSE <<>>,
                    IF GenerateOk(pp0) THEN <<OnWire(Generate(pp0), FALSE)>>
                    ELSE <<>>)
  /\ UNCHANGED <<shutdown, pending_ping, out_of_sync, signalled, registrar,
                 acked>>

TakeBatch == TakeBatchFrom(MaxBatches, BatchShapes, BOOLEAN)

\* Publish lines 277-284: the read channel delivers an error.
ReadError ==
  /\ pc = "select"
  /\ connected
  /\ BreakSelectLoop(payloads, first_payload)
  /\ UNCHANGED <<can_send, input_toggle, shutdown, pending_ping,
                 pending_payloads, first_payload, last_payload, num_payloads,
                 out_of_sync, timer, signalled, registrar, taken, acked,
                 blocked>>
  /\ Note("other", FALSE, <<>>)

\* Publish lines 299-301 and processAck lines 461-464: a signature other
\* than PONG and ACKN, or an ACKN whose body is not 20 bytes.
ReadMalformed ==
  /\ pc = "select"
  /\ connected
  /\ BreakSelectLoop(payloads, first_payload)
  /\ UNCHANGED <<can_send, input_toggle, shutdown, pending_ping,
                 pending_payloads, first_payload, last_payload, num_payloads,
                 out_of_sync, timer, signalled, registrar, taken, acked,
                 blocked>>
  /\ Note("protocol", FALSE, <<>>)

\* Publish lines 304-315: after a message was processed without error.
AfterRead(num) ==
  IF num = 0 /\ shutdown
  THEN BreakPublishLoop /\ UNCHANGED timer
  ELSE timer' = TRUE /\ UNCHANGED <<pc, connected>>

\* processPong lines 446-458 and Publish lines 291-294: a PONG is read.
\* overflow: its body is not empty.
ReadPongOf(overflow) ==
  /\ pc = "select"
  /\ connected
  /\ IF overflow \/ ~pending_ping
     THEN /\ BreakSelectLoop(payloads, first_payload)
          /\ UNCHANGED <<pending_ping, timer>>
          /\ Note("protocol", FALSE, <<>>)
     ELSE /\ pending_ping' = FALSE
          /\ AfterRead(num_payloads)
          /\ UNCHANGED <<retry_payload, payloads>>
          /\ Note("other", FALSE, <<>>)
  /\ UNCHANGED <<can_send, input_toggle, shutdown, pending_payloads,
                 first_payload, last_payload, num_payloads, out_of_sync,
                 signalled, registrar, taken, acked, blocked>>

ReadPong == \E overflow \in BOOLEAN : ReadPongOf(overflow)

\* processAck and Publish lines 295-315: a 20-byte ACKN is read.
ReadAck(nonce, sequence) ==
  /\ pc = "select"
  /\ connected
  /\ processAck(nonce, sequence).oos <= MaxOutOfSync
  /\ LET r == processAck(nonce, sequence)
         id == pending_payloads[nonce]
     IN
     /\ payloads' = Collect(r.heap, r.first, retry_payload)
     /\ pending_payloads' = r.map
     /\ first_payload' = r.first
     /\ num_payloads' = r.num
     /\ out_of_sync' = r.oos
     /\ can_send' = r.can
     /\ registrar' = r.reg
     /\ blocked' = (IF r.unlinked THEN FALSE ELSE blocked)
     /\ acked' = (IF id = NilPayload THEN acked
                  ELSE acked \cup Covered(payloads[id], sequence))
     /\ IF r.panic
        THEN Panic /\ UNCHANGED timer
        ELSE AfterRead(r.num)
     /\ Note(IF id = NilPayload THEN "stale" ELSE "other", FALSE, <<>>)
  /\ UNCHANGED <<input_toggle, retry_payload, shutdown, pending_ping,
                 last_payload, signalled, taken>>

\* Publish lines 316-352: the timer fires.  The PING is written and
\* pending_ping is left as it was: no line of Publish assigns it.
\* wok: a Write succeeds; expired: the head's timeout is before now.
TimerFireOf(wok, expired) ==
  /\ pc = "select"
  /\ timer
  /\ IF out_of_sync # 0 /\ checkResend(expired, wok).kind # "no"
     THEN /\ Resend(checkResend(expired, wok))
          /\ timer' = (checkResend(expired, wok).kind = "resent")
          /\ UNCHANGED input_toggle
          /\ NoteWrite("other", pinged,
                       IF checkResend(expired, wok).kind = "resent"
                       THEN <<first_payload>> ELSE <<>>,
                       checkResend(expired, wok).wire)
     ELSE IF num_payloads # 0 \/ ~input_toggle \/ pending_ping
             \/ ~(wok /\ connected)
     THEN /\ BreakSelectLoop(payloads, first_payload)
          /\ timer' = FALSE
          /\ UNCHANGED input_toggle
          /\ Note(IF num_payloads # 0 THEN "timeout" ELSE "other", FALSE, <<>>)
     ELSE /\ input_toggle' = FALSE
          /\ timer' = TRUE
          /\ UNCHANGED <<pc, connected, retry_payload, payloads>>
          /\ Note("other", TRUE, <<>>)
  /\ UNCHANGED <<can_send, shutdown, pending_ping, pending_payloads,
                 first_payload, last_payload, num_payloads, out_of_sync,
                 signalled, registrar, taken, acked, blocked>>

TimerFire == \E wok \in BOOLEAN, expired \in BOOLEAN : TimerFireOf(wok, expired)

\* Publish lines 353-362: the shutdown signal is received in the select.
ShutdownSelect ==
  /\ pc = "select"
  /\ signalled
  /\ IF num_payloads = 0
     THEN BreakPublishLoop /\ UNCHANGED shutdown
     ELSE shutdown' = TRUE /\ UNCHANGED <<pc, connected>>
  /\ UNCHANGED <<can_send, input_toggle, retry_payload, pending_ping, regVars,
                 timer, signalled, registrar, taken, acked, blocked>>
  /\ Note(IF num_payloads = 0 THEN "signal" ELSE "other", pinged, <<>>)

\* LogCourierMasterControl.Shutdown: the signal channel is closed.
Shutdown ==
  /\ ~signalled
  /\ pc \in {"connect", "select"}
  /\ signalled' = TRUE
  /\ UNCHANGED <<pc, connected, can_send, input_toggle, retry_payload, shutdown,
                 pending_ping, regVars, timer, registrar, taken, acked,
                 blocked, last, pinged, written, wire, ctlVars, srvVars, poolVars>>

\* The read channel may deliver an ACKN with any nonce (one that is no key
\* of the map is a stale one) and any sequence.
Next ==
  \/ ConnectOk
  \/ ConnectFailRetry
  \/ ConnectFailShutdown
  \/ CanSend
  \/ TakeBatch
  \/ ReadError
  \/ ReadMalformed
  \/ ReadPong
  \/ \E nonce \in Nonces, sequence \in Sequences : ReadAck(nonce, sequence)
  \/ TimerFire
  \/ ShutdownSelect
  \/ Shutdown

Spec == Init /\ [][Next]_vars

\* ------------------------------------------------- a well-behaved transport

\* The server acknowledges in full a payload the publisher still waits for.
ServerAck(nonce) ==
  /\ nonce \in MapKeys
  /\ ReadAck(nonce, MaxBatchLen)

\* A credit, and a batch, with every Write succeeding.
CanSendGood == CanSendWith({TRUE})
TakeBatchGood == TakeBatchFrom(MaxBatches, BatchShapes, {TRUE})

\* The publisher over a transport that connects, grants credits, never
\* fails and has no timeout, and a server that acknowledges in full.
FairNext ==
  \/ ConnectOk
  \/ CanSendGood
  \/ TakeBatchGood
  \/ \E nonce \in Nonces : ServerAck(nonce)

FairSpec ==
  /\ Init
  /\ [][FairNext]_vars
  /\ WF_vars(ConnectOk)
  /\ WF_vars(CanSendGood)
  /\ \A nonce \in Nonces : WF_vars(ServerAck(nonce))

\* ------------------------------------------- back-pressure over reconnects

\* One-event batches, every one encodable.
TakeBatchLong == TakeBatchFrom(MaxLongBatches, {<<1, FALSE>>}, {TRUE})

\* The publisher fed one-event batches over a transport whose reads may
\* fail, with a server that acknowledges in full.
LongNext ==
  \/ ConnectOk
  \/ CanSendGood
  \/ TakeBatchLong
  \/ ReadError
  \/ \E nonce \in Nonces : ServerAck(nonce)

LongSpec == Init /\ [][LongNext]_vars

\* ------------------------------------------------------ graceful shutdown

\* The well-behaved transport and server, with the coordinator's shutdown
\* signal: the publisher sees it in the inner select (lines 353-362).
GracefulNext ==
  \/ ConnectOk
  \/ CanSendGood
  \/ TakeBatchGood
  \/ \E nonce \in Nonces : ServerAck(nonce)
  \/ Shutdown
  \/ ShutdownSelect

GracefulSpec ==
  /\ Init
  /\ [][GracefulNext]_vars
  /\ WF_vars(ConnectOk)
  /\ WF_vars(CanSendGood)
  /\ WF_vars(ShutdownSelect)
  /\ \A nonce \in Nonces : WF_vars(ServerAck(nonce))

\* ------------------------------------------- the shutdown coordinator runs

\* The controls handed out, and those of them that have a config channel
\* in lcs.sinks.
Registered(c) == controls[c].reg # "none"
Sinks == {c \in Slots : controls[c].reg = "sink"}

\* register with lcs.group.Add(1) forgotten.
registerNoAdd ==
  [control |-> [reg |-> "plain", signal |-> "lcs.signal", after |-> signalled,
                done |-> FALSE, got |-> 0],
   add |-> 0]

\* LogCourierMasterControl.register lines 80-87: the counter of the group
\* goes up by one and the control holds the coordinator's signal channel.
register ==
  [control |-> [reg |-> "plain", signal |-> "lcs.signal", after |-> signalled,
                done |-> FALSE, got |-> 0],
   add |-> 1]

\* The next slot: controls are told apart only by the order they were
\* handed out in.
NextSlot(c) == ~Registered(c) /\ \A d \in Slots : d < c => Registered(d)

\* LogCourierMasterControl.Register lines 66-68.  The constructors of the
\* tasks call it from the goroutine that later calls SendConfig, so not
\* while a SendConfig is in progress.
Register(c) ==
  /\ NextSlot(c)
  /\ ~sending.active
  /\ controls' = [controls EXCEPT ![c] = register.control]
  /\ group' = group + register.add
  /\ UNCHANGED <<waiter, sending, signalled, pubVars, srvVars, poolVars>>

\* LogCourierMasterControl.RegisterWithRecvConfig lines 70-78: as Register,
\* and a config channel of the control's own is made and put in lcs.sinks.
RegisterWithRecvConfig(c) ==
  /\ NextSlot(c)
  /\ ~sending.active
  /\ controls' = [controls EXCEPT ![c] = [register.control EXCEPT !.reg = "sink"]]
  /\ group' = group + register.add
  /\ UNCHANGED <<waiter, sending, signalled, pubVars, srvVars, poolVars>>

\* LogCourierControl.Done lines 107-109, called once by the task when it
\* ends: the counter goes down by one, and a Wait that is blocked returns
\* when it reaches zero.  (Below zero the WaitGroup panics.)
Done(c) ==
  /\ Registered(c)
  /\ ~controls[c].done
  /\ group > 0
  /\ controls' = [controls EXCEPT ![c].done = TRUE]
  /\ group' = group - 1
  /\ waiter' = (IF waiter = "blocked" /\ group = 1 THEN "returned" ELSE waiter)
  /\ UNCHANGED <<sending, signalled, pubVars, srvVars, poolVars>>

\* LogCourierMasterControl.Wait lines 89-91, called by cleanShutdown
\* (lines 266-269) after Shutdown(): it returns at once when the counter is
\* zero and blocks otherwise.
Wait ==
  /\ waiter = "idle"
  /\ signalled
  /\ waiter' = (IF group = 0 THEN "returned" ELSE "blocked")
  /\ UNCHANGED <<controls, group, sending, signalled, pubVars, srvVars, poolVars>>

\* LogCourierControl.ShutdownSignal lines 99-101: a receive on the channel
\* the control holds succeeds, which it does when that channel is closed.
ShutdownSignal(c) == controls[c].signal = "lcs.signal" /\ signalled

\* LogCourierMasterControl.SendConfig line 61 is entered: the range is over
\* the sinks registered now.
SendConfigCall ==
  /\ ~sending.active
  /\ \A c \in Slots : controls[c].got < MaxConfigs
  /\ sending' = [active |-> TRUE, todo |-> Sinks, cur |-> 0,
                 before |-> [c \in Slots |-> controls[c].got]]
  /\ UNCHANGED <<controls, group, waiter, signalled, pubVars, srvVars, poolVars>>

\* SendConfig line 61: the range yields the next sink, in any order.
SendConfigRange(c) ==
  /\ sending.active
  /\ sending.cur = 0
  /\ c \in sending.todo
  /\ sending' = [sending EXCEPT !.cur = c]
  /\ UNCHANGED <<controls, group, waiter, signalled, pubVars, srvVars, poolVars>>

\* SendConfig line 62 and LogCourierControl.RecvConfig lines 103-105: the
\* send on the unbuffered channel completes when the task receives, which a
\* task that has ended (it has called Done()) no longer does.
RecvConfig(c) ==
  /\ sending.active
  /\ sending.cur = c
  /\ ~controls[c].done
  /\ controls' = [controls EXCEPT ![c].got = controls[c].got + 1]
  /\ sending' = [sending EXCEPT !.cur = 0, !.todo = sending.todo \ {c}]
  /\ UNCHANGED <<group, waiter, signalled, pubVars, srvVars, poolVars>>

\* SendConfig lines 63-64: the range is over and the call returns.
SendConfigReturn ==
  /\ sending.active
  /\ sending.cur = 0
  /\ sending.todo = {}
  /\ sending' = NotSending
  /\ UNCHANGED <<controls, group, waiter, signalled, pubVars, srvVars, poolVars>>

SendConfig ==
  \/ SendConfigCall
  \/ \E c \in Slots : SendConfigRange(c)
  \/ SendConfigReturn

\* The coordinator with the tasks that hold its controls: a task may end at
\* any time, and receives from its config channel until it ends.
ControlNext ==
  \/ \E c \in Slots : Register(c)
  \/ \E c \in Slots : RegisterWithRecvConfig(c)
  \/ \E c \in Slots : Done(c)
  \/ \E c \in Slots : RecvConfig(c)
  \/ SendConfig
  \/ Shutdown
  \/ Wait

ControlSpec ==
  /\ Init
  /\ [][ControlNext]_vars
  /\ WF_vars(\E c \in Slots : SendConfigRange(c))
  /\ WF_vars(SendConfigReturn)
  /\ \A c \in Slots : WF_vars(RecvConfig(c))

\* ----------------------------------------------- the lumberjack server runs

\* process_jdat lines 189-243: a JDAT message is received.  wellformed: it
\* has a nonce, inflates and splits into records; n: the events in it, which
\* the loop counts in sequence.
ProcessJdat(n, wellformed) ==
  /\ server.pc = "run"
  /\ server.frames < MaxFrames
  /\ server' =
       IF ~wellformed
       THEN [server EXCEPT !.pc = "ProtocolError"]
       ELSE [server EXCEPT !.pc = "queue", !.frames = server.frames + 1,
                           !.sequence = n, !.timeouts = 0,
                           !.queued = Append(server.queued, 0)]
  /\ UNCHANGED <<signalled, pubVars, ctlVars, poolVars>>

\* process_jdat lines 250-255: event_queue << events has not completed when
\* the timeout ends; an ACKN with sequence is sent and the push is retried.
QueueTimeout ==
  /\ server.pc = "queue"
  /\ server.timeouts < MaxAckTimeouts
  /\ server' =
       [server EXCEPT
          !.timeouts = server.timeouts + 1,
          !.acks = Append(server.acks,
                          [nonce |-> server.frames,
                           sequence |-> server.sequence,
                           queued |-> server.queued[server.frames]])]
  /\ UNCHANGED <<signalled, pubVars, ctlVars, poolVars>>

\* process_jdat lines 246-249 and 257-258: the events are pushed on the
\* queue and the full ACKN is sent.
QueueEvents ==
  /\ server.pc = "queue"
  /\ server' =
       [server EXCEPT
          !.pc = "run",
          !.queued[server.frames] = server.sequence,
          !.acks = Append(server.acks,
                          [nonce |-> server.frames,
                           sequence |-> server.sequence,
                           queued |-> server.sequence])]
  /\ UNCHANGED <<signalled, pubVars, ctlVars, poolVars>>

\* The server's connection thread: JDAT frames with any number of events.
ServerNext ==
  \/ \E n \in 0..MaxBatchLen, wellformed \in BOOLEAN : ProcessJdat(n, wellformed)
  \/ QueueTimeout
  \/ QueueEvents

ServerSpec == Init /\ [][ServerNext]_vars

\* ------------------------------------------------ the processor pool runs

\* The spooler side sends a batch on Pool.Input().
SendEvents ==
  /\ ~input.closed
  /\ input.len < InputCap
  /\ input.sent < MaxPoolBatches
  /\ input' = [input EXCEPT !.len = input.len + 1, !.sent = input.sent + 1]
  /\ UNCHANGED <<fanout, collector, output, shutdownChan, configChan, run,
                 routines, signalled, pubVars, ctlVars, srvVars>>

\* The spooler side closes the input channel.
CloseInput ==
  /\ ~input.closed
  /\ input' = [input EXCEPT !.closed = TRUE]
  /\ UNCHANGED <<fanout, collector, output, shutdownChan, configChan, run,
                 routines, signalled, pubVars, ctlVars, srvVars>>

\* The shutdown channel is closed.
CloseShutdownChan ==
  /\ ~shutdownChan
  /\ shutdownChan' = TRUE
  /\ UNCHANGED <<input, fanout, collector, output, configChan, run,
                 routines, signalled, pubVars, ctlVars, srvVars>>

\* A new config is sent on configChan.
PoolConfig ==
  /\ configChan.cfg = 0
  /\ configChan.sent < MaxPoolConfigs
  /\ configChan' = [cfg |-> configChan.sent + 1, sent |-> configChan.sent + 1]
  /\ UNCHANGED <<input, fanout, collector, output, shutdownChan, run,
                 routines, signalled, pubVars, ctlVars, srvVars>>

\* Run, lines 93-94: the shutdown case of the select sets the flag and the
\* loop goes on.
RunShutdown ==
  /\ run.pc = "select"
  /\ shutdownChan
  /\ run' = [run EXCEPT !.shutdown = TRUE]
  /\ UNCHANGED <<input, fanout, collector, output, shutdownChan, configChan,
                 routines, signalled, pubVars, ctlVars, srvVars>>

\* Run, lines 95-97: a new config is received and the context is cancelled.
RunConfig ==
  /\ run.pc = "select"
  /\ configChan.cfg # 0
  /\ run' = [run EXCEPT !.newConfig = configChan.cfg, !.cancelled = TRUE]
  /\ configChan' = [configChan EXCEPT !.cfg = 0]
  /\ UNCHANGED <<input, fanout, collector, output, shutdownChan,
                 routines, signalled, pubVars, ctlVars, srvVars>>

\* Run, lines 98-106: a receive from input.  A buffered batch is bundled and
\* tracked; a closed and drained input yields nil, and then fanout is closed:
\* closing a channel that is closed already panics.
RunInput ==
  /\ run.pc = "select"
  /\ \/ /\ input.len > 0
        /\ input' = [input EXCEPT !.len = input.len - 1]
        /\ run' = [run EXCEPT !.pc = "fanout"]
        /\ UNCHANGED fanout
     \/ /\ input.len = 0
        /\ input.closed
        /\ IF fanout.closed
           THEN /\ run' = [run EXCEPT !.shutdown = TRUE, !.pc = "panic_close"]
                /\ UNCHANGED fanout
           ELSE /\ run' = [run EXCEPT !.shutdown = TRUE]
                /\ fanout' = [fanout EXCEPT !.closed = TRUE]
        /\ UNCHANGED input
  /\ UNCHANGED <<collector, output, shutdownChan, configChan,
                 routines, signalled, pubVars, ctlVars, srvVars>>

\* Run, lines 107-110, the send case: the bundle goes to fanout.
RunFanoutSend ==
  /\ run.pc = "fanout"
  /\ fanout.len < FanoutCap
  /\ fanout' = [fanout EXCEPT !.len = fanout.len + 1]
  /\ run' = [run EXCEPT !.pc = "select"]
  /\ UNCHANGED <<input, collector, output, shutdownChan, configChan,
                 routines, signalled, pubVars, ctlVars, srvVars>>

\* Run, lines 107-110, the shutdown case: the bundle is not sent.
RunFanoutShutdown ==
  /\ run.pc = "fanout"
  /\ shutdownChan
  /\ run' = [run EXCEPT !.pc = "select"]
  /\ UNCHANGED <<input, fanout, collector, output, shutdownChan, configChan,
                 routines, signalled, pubVars, ctlVars, srvVars>>

\* Run, lines 111-120: a receive from collector.  A nil counts a routine
\* off, and the loop is left when none remains; otherwise the sequencer is
\* given the bundle and releases k bundles in order. With a nil and routines
\* remaining, Enforce is called with nil: it returns nothing or panics.
RunCollector ==
  /\ run.pc = "select"
  /\ collector # <<>>
  /\ collector' = Tail(collector)
  /\ LET count == IF Head(collector) = "nil" THEN run.routineCount - 1
                  ELSE run.routineCount
     IN IF count = 0
        THEN run' = [run EXCEPT !.routineCount = count, !.pc = "left"]
        ELSE IF Head(collector) = "nil"
        THEN \E panics \in BOOLEAN :
               run' = [run EXCEPT !.routineCount = count,
                                  !.pc = IF panics THEN "panic_nil"
                                         ELSE "select"]
        ELSE \E k \in 0..(run.held + 1) :
               run' = [run EXCEPT !.held = run.held + 1 - k, !.result = k,
                                  !.pc = IF k = 0 THEN "select" ELSE "output"]
  /\ UNCHANGED <<input, fanout, output, shutdownChan, configChan,
                 routines, signalled, pubVars, ctlVars, srvVars>>

\* Run, lines 121-127, the send case: a released batch goes to output.
RunOutputSend ==
  /\ run.pc = "output"
  /\ output' = [output EXCEPT !.sent = output.sent + 1]
  /\ run' = [run EXCEPT !.result = run.result - 1,
                        !.pc = IF run.result = 1 THEN "select" ELSE "output"]
  /\ UNCHANGED <<input, fanout, collector, shutdownChan, configChan,
                 routines, signalled, pubVars, ctlVars, srvVars>>

\* Run, lines 121-127, the shutdown case: the flag is set and the batch is
\* not sent.
RunOutputShutdown ==
  /\ run.pc = "output"
  /\ shutdownChan
  /\ run' = [run EXCEPT !.shutdown = TRUE, !.result = run.result - 1,
                        !.pc = IF run.result = 1 THEN "select" ELSE "output"]
  /\ UNCHANGED <<input, fanout, collector, output, shutdownChan, configChan,
                 routines, signalled, pubVars, ctlVars, srvVars>>

\* Run, lines 131-139 and 81-88: after the pipeline loop.  With shutdown set
\* the context is cancelled, output is closed and Run returns; otherwise the
\* pipelines of newConfig are installed and a fresh set of routines started.
RunLeft ==
  /\ run.pc = "left"
  /\ IF run.shutdown
     THEN /\ run' = [run EXCEPT !.cancelled = TRUE, !.pc = "returned"]
          /\ output' = [output EXCEPT !.closed = TRUE]
          /\ UNCHANGED routines
     ELSE /\ run' = [RunStart(run.newConfig) EXCEPT !.held = run.held]
          /\ routines' = [r \in Routines |-> "select"]
          /\ UNCHANGED output
  /\ UNCHANGED <<input, fanout, collector, shutdownChan, configChan,
                 signalled, pubVars, ctlVars, srvVars>>

\* processorRoutine, lines 147-148 and 165-166: the shutdown case of either
\* select; the routine returns.
RoutineShutdown(r) ==
  /\ routines[r] \in {"select", "collect"}
  /\ shutdownChan
  /\ routines' = [routines EXCEPT ![r] = "returned"]
  /\ UNCHANGED <<input, fanout, collector, output, shutdownChan, configChan,
                 run, signalled, pubVars, ctlVars, srvVars>>

\* processorRoutine, lines 149-150: the context is cancelled; the routine
\* returns.
RoutineDone(r) ==
  /\ routines[r] = "select"
  /\ run.cancelled
  /\ routines' = [routines EXCEPT ![r] = "returned"]
  /\ UNCHANGED <<input, fanout, collector, output, shutdownChan, configChan,
                 run, signalled, pubVars, ctlVars, srvVars>>

\* processorRoutine, lines 151-162: a receive from fanout.  A buffered bundle
\* is processed; a closed and drained fanout yields nil.
RoutineFanout(r) ==
  /\ routines[r] = "select"
  /\ \/ /\ fanout.len > 0
        /\ fanout' = [fanout EXCEPT !.len = fanout.len - 1]
        /\ routines' = [routines EXCEPT ![r] = "collect"]
     \/ /\ fanout.len = 0
        /\ fanout.closed
        /\ routines' = [routines EXCEPT ![r] = "nil"]
        /\ UNCHANGED fanout
  /\ UNCHANGED <<input, collector, output, shutdownChan, configChan,
                 run, signalled, pubVars, ctlVars, srvVars>>

\* processorRoutine, lines 164-168, the send case: the processed bundle goes
\* to collector.
RoutineCollect(r) ==
  /\ routines[r] = "collect"
  /\ Len(collector) < CollectorCap
  /\ collector' = Append(collector, "bundle")
  /\ routines' = [routines EXCEPT ![r] = "select"]
  /\ UNCHANGED <<input, fanout, output, shutdownChan, configChan,
                 run, signalled, pubVars, ctlVars, srvVars>>

\* processorRoutine, lines 153-154: nil goes to collector and the routine
\* returns.
RoutineNil(r) ==
  /\ routines[r] = "nil"
  /\ Len(collector) < CollectorCap
  /\ collector' = Append(collector, "nil")
  /\ routines' = [routines EXCEPT ![r] = "returned"]
  /\ UNCHANGED <<input, fanout, output, shutdownChan, configChan,
                 run, signalled, pubVars, ctlVars, srvVars>>

PoolNext ==
  \/ SendEvents
  \/ CloseInput
  \/ CloseShutdownChan
  \/ PoolConfig
  \/ RunShutdown
  \/ RunConfig
  \/ RunInput
  \/ RunFanoutSend
  \/ RunFanoutShutdown
  \/ RunCollector
  \/ RunOutputSend
  \/ RunOutputShutdown
  \/ RunLeft
  \/ \E r \in Routines : RoutineShutdown(r)
  \/ \E r \in Routines : RoutineDone(r)
  \/ \E r \in Routines : RoutineFanout(r)
  \/ \E r \in Routines : RoutineCollect(r)
  \/ \E r \in Routines : RoutineNil(r)

\* Run and the routines are goroutines the scheduler keeps running, a select
\* with a ready case takes one, and the reader of output takes what is sent;
\* the spooler side, the shutdown and the configs are free to come or not.
PoolSpec ==
  /\ Init
  /\ [][PoolNext]_vars
  /\ WF_vars(RunShutdown)
  /\ WF_vars(RunConfig)
  /\ WF_vars(RunInput)
  /\ WF_vars(RunFanoutSend)
  /\ WF_vars(RunFanoutShutdown)
  /\ WF_vars(RunCollector)
  /\ WF_vars(RunOutputSend)
  /\ WF_vars(RunOutputShutdown)
  /\ WF_vars(RunLeft)
  /\ \A r \in Routines :
       /\ WF_vars(RoutineShutdown(r))
       /\ WF_vars(RoutineDone(r))
       /\ WF_vars(RoutineFanout(r))
       /\ WF_vars(RoutineCollect(r))
       /\ WF_vars(RoutineNil(r))

\* ----------------------------------------------------------------- claims

\* The events sent to the registrar, in the order sent.
Delivered == Flatten(registrar)
DeliveredSet == {Delivered[k] : k \in 1..Len(Delivered)}

\* The events the payloads of the pending list hold.
HeldSet ==
  UNION {{payloads[PendingList[j]].events[k] :
            k \in 1..Len(payloads[PendingList[j]].events)} :
         j \in 1..Len(PendingList)}

\* Publish is between two steps of its loops (it has neither returned nor
\* panicked).
Running == pc \in {"connect", "select"}

\* C1: the events sent to the registrar, concatenated in the order sent,
\* are a prefix of the input batches concatenated in the order received.
C1_RegistrarIsPrefixOfInput == IsPrefix(Delivered, Flatten(taken))

\* C2: every event the registrar was sent has been covered by a received
\* ACKN for its payload's nonce, the sequence counted from payload_start.
C2_DeliveredWasAcked == DeliveredSet \subseteq acked

\* C2 witness: a two-event batch was acknowledged in full and sent to the
\* registrar while another payload is still pending unacknowledged.
C2_Witness ==
  /\ \E j \in 1..Len(registrar) : Len(registrar[j]) = 2
  /\ num_payloads = 1
  /\ HeldSet # {}
  /\ HeldSet \cap acked = {}

\* C4: every event of every batch received from the input channel is held
\* by a payload of the pending list or has been sent to the registrar.
C4_BatchHeldUntilDelivered ==
  \A b \in 1..Len(taken) : \A k \in 1..Len(taken[b]) :
    taken[b][k] \in HeldSet \cup DeliveredSet

\* C5: between steps, out_of_sync is the number of payloads after the head
\* of the pending list whose ack_events is above 0.
C5_OutOfSyncCountsAckedNonHead ==
  Running =>
    out_of_sync =
      Cardinality({j \in 2..Len(PendingList) :
                     payloads[PendingList[j]].ack_events > 0})

C3_EveryBatchDelivered ==
  \A b \in 1..MaxBatches :
    (Len(taken) >= b) ~>
      (/\ Len(taken) >= b
       /\ \A k \in 1..Len(taken[b]) : taken[b][k] \in DeliveredSet)

\* C3, supporting: the events of the input that no pending payload holds and
\* the registrar was not sent; an event once lost stays lost in every step
\* of Spec, whatever the transport, the timer and the server do.
Lost ==
  {Flatten(taken)[k] : k \in 1..Len(Flatten(taken))}
    \ (HeldSet \cup DeliveredSet)
C3_LostStaysLost ==
  [][\A k \in 1..Len(Flatten(taken)) :
       Flatten(taken)[k] \in Lost => Flatten(taken)[k] \in Lost']_vars

\* C7: num_payloads never exceeds max_pending_payloads + 1.
C7_PendingBounded == num_payloads <= max_pending_payloads + 1

\* C8: while the inner select waits with more than max_pending_payloads
\* payloads pending, can_send is nil.
C8_NoCreditAboveLimit ==
  (pc = "select" /\ num_payloads > max_pending_payloads) => ~can_send

\* C9: once can_send was set to nil at the limit, no batch is received from
\* the input channel until a head payload has been unlinked.
C9_NoInputWhileBlocked == [][blocked => taken' = taken]_vars

\* The events of the batch the head payload was built from that a received
\* ACKN has covered, and those of them sent to the registrar.
HeadBatch == taken[payloads[first_payload].events[1].b]
HeadAcked == {k \in 1..Len(HeadBatch) : HeadBatch[k] \in acked}

\* C10: between steps, when an ACKN has covered the first s of the n events
\* of the head payload's batch, 0 < s < n, exactly those s events were sent
\* to the registrar and the payload is truncated to the other n - s events,
\* with num_events = n - s, ack_events = 0 and payload_start = 0.
C10_PartialAckDeliversPrefix ==
  (/\ Running
   /\ first_payload # NilPayload
   /\ payloads[first_payload].events # <<>>
   /\ HeadAcked # {}
   /\ Cardinality(HeadAcked) < Len(HeadBatch))
  => LET s == Cardinality(HeadAcked)
         pp == payloads[first_payload]
     IN /\ \A k \in 1..s : HeadBatch[k] \in DeliveredSet
        /\ pp.events = SliceFrom(HeadBatch, s)
        /\ pp.num_events = Len(HeadBatch) - s
        /\ pp.ack_events = 0
        /\ pp.payload_start = 0

\* The fields of the payloads an ACKN may change, the timeout left out.
AckFields(heap) ==
  [i \in 1..Len(heap) |->
     [next |-> heap[i].next, events |-> heap[i].events,
      num_events |-> heap[i].num_events, ack_events |-> heap[i].ack_events,
      payload_start |-> heap[i].payload_start, payload |-> heap[i].payload]]

\* The sequence recorded for a payload, counted as the ACKN counts it.
Recorded(pp) == pp.ack_events - pp.payload_start

\* C11: an ACKN for a pending payload whose sequence is not above the
\* sequence recorded for it changes neither the payloads' counters and
\* frames, nor out_of_sync, num_payloads, the list, the map, nor what the
\* registrar was sent.
C11_StaleAckIsNoOp ==
  [][\A nonce \in Nonces, sequence \in Sequences :
       (/\ nonce \in MapKeys
        /\ sequence <= Recorded(payloads[pending_payloads[nonce]])
        /\ ReadAck(nonce, sequence))
       => /\ AckFields(payloads') = AckFields(payloads)
          /\ UNCHANGED <<out_of_sync, num_payloads, first_payload,
                         last_payload, pending_payloads, registrar>>]_vars

\* The pending list as the payloads it links, in order.
ListView(heap, first) ==
  [j \in 1..Len(ListFrom(heap, first)) |-> heap[ListFrom(heap, first)[j]]]

\* C12: a 20-byte ACKN whose nonce is no key of pending_payloads leaves
\* Publish in the inner loop with the transport connected, sends nothing to
\* the registrar and changes neither the list, the map, the counters, the
\* payloads nor can_send.
C12_UnknownNonceIgnored ==
  [][\A nonce \in Nonces, sequence \in Sequences :
       (nonce \notin MapKeys /\ ReadAck(nonce, sequence))
       => /\ pc' = "select"
          /\ connected'
          /\ UNCHANGED <<registrar, regVars, can_send, retry_payload>>]_vars

\* C12 witness: an ACKN for a nonce that is no key of the map was read
\* while two payloads are linked, the second fully acknowledged out of
\* order (its nonce is the stale one a repeated ACKN carries).
C12_Witness ==
  /\ last = "stale"
  /\ pc = "select"
  /\ Len(PendingList) = 2
  /\ payloads[PendingList[2]].nonce \notin MapKeys
  /\ payloads[PendingList[2]].events # <<>>
  /\ out_of_sync = 1

\* The payloads of the pending list that still have unacknowledged events.
Unacked == SelectSeq(PendingList,
                     LAMBDA id : payloads[id].ack_events # Len(payloads[id].events))
WrittenSet == {written[k] : k \in 1..Len(written)}

\* On a connection: payloads are first written in the order they were
\* received (ids grow in that order); of the payloads with unacknowledged
\* events those written form a head part of the list; and the input is
\* enabled only when all of them have been written.
RetransmitInOrder ==
  (pc = "select" /\ connected) =>
    /\ \A j, k \in 1..Len(written) : j < k => written[j] < written[k]
    /\ \A j, k \in 1..Len(Unacked) :
         (j < k /\ Unacked[k] \in WrittenSet) => Unacked[j] \in WrittenSet
    /\ input_toggle => \A j \in 1..Len(Unacked) : Unacked[j] \in WrittenSet

\* C13: after every step RetransmitInOrder holds; a step writes the first
\* frame of at most one payload on the connection; and a batch is received
\* from the input channel only when every pending payload with
\* unacknowledged events has been written on this connection.
C13_RetransmitBeforeNewInput ==
  [][/\ RetransmitInOrder'
     /\ Len(written') <= Len(written) + 1
     /\ taken' # taken =>
          \A j \in 1..Len(Unacked) : Unacked[j] \in WrittenSet]_vars

\* A protocol violation is read: an unknown signature or an ACKN that is
\* not 20 bytes, a PONG with a body, or a PONG while no ping is pending.
ProtocolViolation ==
  \/ ReadMalformed
  \/ ReadPongOf(TRUE)
  \/ (~pending_ping /\ ReadPongOf(FALSE))

\* C14: a protocol violation on the read channel does not end Publish and
\* changes neither the pending list nor the counters: the transport is
\* disconnected, retry_payload is first_payload and Publish is back at
\* Connect.
C14_ProtocolErrorReconnects ==
  [][ProtocolViolation
     => /\ pc' = "connect"
        /\ ~connected'
        /\ retry_payload' = first_payload
        /\ ListView(payloads', first_payload') = ListView(payloads, first_payload)
        /\ UNCHANGED <<first_payload, last_payload, num_payloads, out_of_sync,
                       pending_payloads, registrar, taken>>]_vars

\* C14 witness: a protocol violation was read with two payloads pending,
\* one of them acknowledged out of order; Publish is back at Connect with
\* both still linked and the retry set to the head.
C14_Witness ==
  /\ last = "protocol"
  /\ pc = "connect"
  /\ num_payloads = 2
  /\ Len(PendingList) = 2
  /\ out_of_sync = 1
  /\ retry_payload = first_payload

\* C15: when the timer fires while nothing is pending, the input is
\* enabled, out_of_sync is 0 and no ping is pending, and the PING is
\* written, pending_ping is true and input_toggle is nil after the step.
C15_IdlePingSetsPending ==
  [][(/\ num_payloads = 0
      /\ input_toggle
      /\ out_of_sync = 0
      /\ ~pending_ping
      /\ connected
      /\ TimerFireOf(TRUE, FALSE))
     => /\ pinged'
        /\ pending_ping'
        /\ ~input_toggle']_vars

\* C16: a PONG with an empty body read after a PING was written, no other
\* message read in between, is accepted: pending_ping is false, the
\* transport stays connected and Publish stays in the inner loop.
C16_PongAfterPingAccepted ==
  [][(pinged /\ ReadPongOf(FALSE))
     => /\ pc' = "select"
        /\ connected'
        /\ ~pending_ping']_vars

\* C17: when the timer fires after a PING was written and before any
\* message was read, Publish breaks the inner loop and reconnects, and no
\* second PING is written.
C17_SecondTimerReconnects ==
  [][(pinged /\ TimerFire)
     => /\ pc' = "connect"
        /\ ~connected'
        /\ ~pinged']_vars

\* C18: when the timer fires with payloads pending and checkResend does not
\* retransmit the head (out_of_sync is 0, or no deadline of the head has
\* passed: the deadline is ahead, or the head has none), the transport is
\* disconnected, retry_payload is first_payload, Publish is back at Connect
\* and every pending payload is kept.
C18_ServerTimeoutReconnects ==
  [][\A wok \in BOOLEAN, expired \in BOOLEAN :
       (/\ num_payloads > 0
        /\ out_of_sync = 0 \/ checkResend(expired, wok).kind \in {"no", "panic"}
        /\ TimerFireOf(wok, expired))
       => /\ pc' = "connect"
          /\ ~connected'
          /\ retry_payload' = first_payload
          /\ ListView(payloads', first_payload') = ListView(payloads, first_payload)
          /\ UNCHANGED <<first_payload, last_payload, num_payloads,
                         out_of_sync, pending_payloads, registrar>>]_vars

\* C19: when the shutdown signal is received in the inner loop with no
\* payload pending, Publish leaves both loops and returns (lines 374-380
\* and the deferred shutdown.Done()) with the transport disconnected, having
\* taken no batch and written no frame in the step; once returned it takes
\* no further step.
C19_ImmediateShutdown ==
  [][/\ (num_payloads = 0 /\ ShutdownSelect)
        => /\ pc' = "exited"
           /\ ~connected'
           /\ UNCHANGED <<taken, regVars, registrar>>
           /\ written' = <<>> /\ ~pinged'
     /\ pc = "exited" => UNCHANGED vars]_vars

\* C19 witness: Publish has returned on the signal, from a connected idle
\* inner loop with the input enabled, after a batch was delivered.
C19_Witness ==
  /\ last = "signal"
  /\ pc = "exited"
  /\ ~connected
  /\ input_toggle
  /\ num_payloads = 0
  /\ registrar # <<>>

\* C20: from the step that sets the shutdown flag onwards no batch is
\* received from the input channel.
C20_NoInputAfterShutdownFlag == [][shutdown => taken' = taken]_vars

\* C21: when the shutdown signal is given while payloads are pending, and
\* from then on the transport stays up and the server acknowledges every
\* pending payload in full, num_payloads reaches 0 and Publish leaves its
\* loops and returns.
C21_GracefulShutdownTerminates ==
  (signalled /\ num_payloads > 0) ~> (num_payloads = 0 /\ pc = "exited")

\* C22: no two payloads linked in the pending list have the same nonce,
\* those fully acknowledged out of order and waiting behind the head
\* included.
C22_LinkedNoncesDistinct ==
  \A j, k \in 1..Len(PendingList) :
    j # k => payloads[PendingList[j]].nonce # payloads[PendingList[k]].nonce

\* The batch the step has received from the input channel holds an event
\* json.Marshal cannot encode.
NewBatchUnencodable ==
  /\ Len(taken') = Len(taken) + 1
  /\ \E k \in 1..Len(taken'[Len(taken')]) : ~Encodable(taken'[Len(taken')][k])

\* C23: when a batch with an event that cannot be JSON-encoded is received
\* and the transport's Write succeeds, the frame is generated, the payload
\* is linked with all the events of the batch and written, and Publish
\* stays in the inner loop with the transport connected.
C23_EncodingFailureRecovered ==
  [][(TakeBatchGood /\ NewBatchUnencodable)
     => /\ pc' = "select"
        /\ connected'
        /\ num_payloads' = num_payloads + 1
        /\ payloads'[last_payload'].events = taken'[Len(taken')]
        /\ payloads'[last_payload'].payload # NilFrame
        /\ last_payload' \in WrittenSet']_vars

\* No error has occurred over the well-behaved transport: every event
\* received so far could be encoded (the one failure left to a transport
\* that connects, writes and reads without error).
AllEncodable ==
  \A k \in 1..Len(Flatten(taken)) : Encodable(Flatten(taken)[k])

\* Every payload sent so far has received a full ACKN: a payload enters the
\* map when it is sent (line 434) and leaves it on a full ACKN only
\* (line 484).
AllFullyAcked == MapKeys = {}

\* C24: when every payload sent so far has received a full ACKN and no
\* error has occurred, num_payloads is 0, first_payload is nil and no
\* payload keeps a frame, whatever the sizes of the batches (zero events
\* included).
C24_QuiescentAfterFullAcks ==
  (Running /\ AllEncodable /\ AllFullyAcked)
  => /\ num_payloads = 0
     /\ first_payload = NilPayload
     /\ \A i \in 1..Len(payloads) : payloads[i].payload = NilFrame

\* C25: once Shutdown() was called, every control handed out by Register or
\* RegisterWithRecvConfig, before or after the call, sees the shutdown on
\* ShutdownSignal(); Wait() returns only when every control handed out has
\* called Done(), and is not left blocked once all of them have.
C25_ShutdownCoordinator ==
  /\ [](signalled => \A c \in Slots : Registered(c) => ShutdownSignal(c))
  /\ [][(waiter # "returned" /\ waiter' = "returned")
        => \A c \in Slots : Registered(c)' => controls'[c].done]_vars
  /\ [](waiter = "blocked" => \E c \in Slots : Registered(c) /\ ~controls[c].done)

\* C25 witness: Wait() has returned; two controls were handed out, one
\* before Shutdown() and one after it, one of them with a config channel;
\* both see the signal and both have called Done().
C25_Witness ==
  /\ waiter = "returned"
  /\ ~controls[1].after /\ controls[2].after
  /\ Sinks # {} /\ Sinks # Slots
  /\ \A c \in Slots : controls[c].done /\ ShutdownSignal(c)

\* C26: every SendConfig call returns, and when it returns each control
\* handed out by RegisterWithRecvConfig has received the config exactly
\* once and each control handed out by Register has received nothing,
\* whichever tasks have called Done() and whether or not Shutdown() was
\* called.
C26_ConfigFanOut ==
  /\ [][SendConfigReturn
        => \A c \in Slots :
             controls[c].got =
               sending.before[c] + (IF c \in Sinks THEN 1 ELSE 0)]_vars
  /\ (sending.active ~> ~sending.active)

\* C27: every frame handed to Write("JDAT", ...) (first send, retry after
\* a reconnect, checkResend) is present; a frame that had been freed was
\* generated again before, from exactly events[ack_events:], with
\* payload_start set to ack_events.
C27_WrittenFramePresent ==
  \A k \in 1..Len(wire) :
    /\ wire[k].payload # NilFrame
    /\ wire[k].gen =>
         /\ wire[k].payload =
              <<wire[k].nonce, SliceFrom(wire[k].events, wire[k].ack_events)>>
         /\ wire[k].payload_start = wire[k].ack_events

\* C27 witness: the last step wrote the JDAT of a payload that holds events
\* and whose frame had been freed by a full ACKN, generated again.
C27_Witness ==
  /\ Len(wire) = 1
  /\ wire[1].gen
  /\ wire[1].events # <<>>
  /\ pc = "select"

\* C28: after every ACKN, out_of_sync # 0 implies that first_payload is not
\* nil, so line 530 reads the timeout of an existing payload; and
\* num_payloads = 0 implies out_of_sync = 0.
C28_OutOfSyncHasHead ==
  /\ out_of_sync # 0 => first_payload # NilPayload
  /\ num_payloads = 0 => out_of_sync = 0

\* The step calls checkResend: a credit with no retry in progress, or the
\* timer, while out_of_sync is not 0 (lines 239-241 and 318-320).
CallsCheckResend ==
  /\ out_of_sync # 0
  /\ \/ TimerFire
     \/ (retry_payload = NilPayload /\ CanSend)

\* C29: whenever checkResend is called, first_payload is not nil and its
\* timeout is set.
C29_CheckResendHasDeadline ==
  [][CallsCheckResend
     => /\ first_payload # NilPayload
        /\ payloads[first_payload].timeout]_vars

\* retry_payload is nil or a payload linked in the pending list.
RetryIsLinked ==
  retry_payload = NilPayload
    \/ \E j \in 1..Len(PendingList) : PendingList[j] = retry_payload

\* C30: after every step retry_payload is nil or a payload still linked in
\* the pending list, and a credit taken by the retry branch (lines 208-238)
\* does not dereference a nil first_payload at line 233.
C30_RetryPayloadIsLinked ==
  [][/\ RetryIsLinked'
     /\ (retry_payload # NilPayload /\ CanSend) => pc' # "panic"]_vars

\* C31: Publish is in the inner select loop only on a transport whose last
\* Connect returned no error: after a failed Connect it retries or exits,
\* also when the shutdown signal is seen while payloads are pending.
C31_SelectOnlyWhenConnected == pc = "select" => connected

\* C32: every ACKN the server sends for a frame carries a sequence that is
\* not above the number of events of that frame handed to the event queue
\* when it is sent.
C32_AckOnlyQueuedEvents ==
  \A k \in 1..Len(server.acks) :
    server.acks[k].sequence <= server.acks[k].queued

\* C33: when the input channel of the pool is closed, fanout is never closed
\* a second time, and the closing leads to Run having closed output and
\* returned after every routine has reported completion (Run has counted
\* routineCount down to 0), unless the pool is shut down or reloaded
\* meanwhile.
C33_GracefulClose ==
  /\ [](run.pc # "panic_close")
  /\ input.closed ~>
       \/ run.pc = "returned" /\ output.closed /\ run.routineCount = 0
       \/ shutdownChan
       \/ run.cancelled

\* C34: after shutdownChan is closed Run eventually has left its pipeline
\* loop, closed output and returned.
C34_ShutdownReturns ==
  shutdownChan ~> (run.pc = "returned" /\ output.closed)

\* C35: after Run has received a new config it eventually has installed the
\* pipelines of that config and runs a fresh set of routines on a context
\* that is not cancelled, unless the pool is shut down or its input closed
\* meanwhile.
C35_ReloadInstalls ==
  \A cfg \in 1..MaxPoolConfigs :
    (run.newConfig = cfg) ~>
      \/ /\ run.pipelines = cfg
         /\ ~run.cancelled
         /\ \A r \in Routines : routines[r] # "returned"
      \/ shutdownChan
      \/ input.closed

====
